---------------------------- MODULE Spec2Model ----------------------------
(***************************************************************************)
(* Model of task2_simple.cpp: the RLE codec, the chunked multi-threaded    *)
(* compressor (compressFile + compressWorker) and the sequential           *)
(* decompressor (decompressFile).                                          *)
(*                                                                         *)
(* Bytes are modelled as the values of `char` on the platform the program  *)
(* is built for (signed, 8 bits): -128..127.  size_t is 8 bytes, stored    *)
(* least significant byte first.                                           *)
(***************************************************************************)
EXTENDS Integers, Sequences, FiniteSets, TLC

----------------------------------------------------------------------------
(* Bounds of the model *)

\* longest input file of a compression run, in bytes
MaxLen == 3
\* largest worker count a run is started with
MaxWorkers == 2
\* largest number of records in an input of the decompressor
MaxRecs == 2
\* bytes of memory available to one std::vector<char>; a larger request
\* throws std::bad_alloc, which nothing catches
MaxAlloc == 40

(* Program constants *)

\* constexpr size_t CHUNK_SIZE (scaled down from 1024 * 1024)
CHUNK_SIZE == 2
\* the run-length cap of RLECompress: count < 255
MAX_RUN == 255
\* sizeof(size_t)
SIZE_T == 8
\* the thread that runs compressFile; workers are 1..threadCount
MainThread == 0
\* value of a mutex nobody holds
Unlocked == -1

----------------------------------------------------------------------------
(* char conversions *)

\* static_cast<char>(n): keeps the low 8 bits, read as a signed value
ToChar(n) == LET m == n % 256 IN IF m >= 128 THEN m - 256 ELSE m

\* static_cast<unsigned char>(c)
ToUChar(c) == c % 256

Min(a, b) == IF a < b THEN a ELSE b

\* output.insert(output.end(), count, ch)
Repeat(ch, count) == [k \in 1..count |-> ch]

----------------------------------------------------------------------------
(* RLE codec.  Vectors are 1-based sequences; i and count are the 0-based  *)
(* values of the code.                                                     *)

\* the least element of a non-empty set of numbers
Least(S) == CHOOSE c \in S : \A d \in S : c <= d

\* the inner loop without the cap on count
RunLengthUncapped(input, i) ==
    Least({c \in 1..(Len(input) - i) :
              ~(i + c < Len(input) /\ input[i + c + 1] = input[i + 1])})

\* the inner loop with the cap one too low
RunLengthCap254(input, i) ==
    Least({c \in 1..Min(MAX_RUN, Len(input) - i) :
              ~(i + c < Len(input) /\ input[i + c + 1] = input[i + 1]
                /\ c < MAX_RUN - 1)})

\* the inner while loop of RLECompress: count starts at 1 and is incremented
\* while the loop condition holds, so it ends as the first value at which
\* the condition fails
RunLength(input, i) ==
    Least({c \in 1..Min(MAX_RUN, Len(input) - i) :
              ~(i + c < Len(input) /\ input[i + c + 1] = input[i + 1]
                /\ c < MAX_RUN)})

RECURSIVE CompressFrom(_, _)
\* the outer while loop of RLECompress, from position i
CompressFrom(input, i) ==
    IF i < Len(input)
    THEN LET count == RunLength(input, i)
         IN  <<input[i + 1], ToChar(count)>> \o CompressFrom(input, i + count)
    ELSE <<>>

RLECompress(input) == CompressFrom(input, 0)

\* a loop condition that only looks at the first byte of the pair
DecodeMoreOffByOne(input, i) == i < Len(input)

\* the condition of the for loop of RLEDecompress: i + 1 < input.size()
DecodeMore(input, i) == i + 1 < Len(input)

RECURSIVE DecompressFrom(_, _)
\* the for loop of RLEDecompress, from position i
DecompressFrom(input, i) ==
    IF DecodeMore(input, i)
    THEN Repeat(input[i + 1], ToUChar(input[i + 2])) \o DecompressFrom(input, i + 2)
    ELSE <<>>

RLEDecompress(input) == DecompressFrom(input, 0)

RECURSIVE ReadsFrom(_, _)
\* the 0-based positions of input the loop reads from position i on:
\* input[i] and input[i + 1] in every iteration
ReadsFrom(input, i) ==
    IF DecodeMore(input, i)
    THEN {i, i + 1} \cup ReadsFrom(input, i + 2)
    ELSE {}

\* the positions of input RLEDecompress reads
DecodeReads(input) == ReadsFrom(input, 0)

----------------------------------------------------------------------------
(* size_t <-> bytes, as reinterpret_cast<char*>(&x) sees them *)

RECURSIVE SizeBytes(_, _)
\* the k low bytes of n, least significant first
SizeBytes(n, k) ==
    IF k = 0 THEN <<>> ELSE <<ToChar(n % 256)>> \o SizeBytes(n \div 256, k - 1)

\* the bytes out.write(reinterpret_cast<char*>(&x), sizeof(size_t)) writes
SizeToChars(n) == SizeBytes(n, SIZE_T)

RECURSIVE CharsToSize(_)
\* the value of a size_t that was 0 and whose first Len(bytes) bytes were
\* overwritten by bytes.  Values above MaxAlloc are all reported as
\* MaxAlloc + 1: the program only allocates that many bytes, which fails
\* the same way for each of them.
CharsToSize(bytes) ==
    IF bytes = <<>> THEN 0
    ELSE Min(ToUChar(Head(bytes)) + 256 * CharsToSize(Tail(bytes)), MaxAlloc + 1)

\* one record as a worker writes it: index, size, payload
Frame(idx, payload) == SizeToChars(idx) \o SizeToChars(Len(payload)) \o payload

----------------------------------------------------------------------------
(* State *)

VARIABLES
    \* ---- a compression run: compressFile(inputFile, outputFile, threadCount)
    inputFile,     \* the bytes of the input file
    existing,      \* the bytes the output path held before the run
    threadCount,   \* the threads argument
    file,          \* the bytes of the output file
    rpc,           \* position of compressFile
    spawned,       \* threads.size()
    joined,        \* threads already joined
    inPos,         \* read position of `in`
    inEof,         \* in.eof()
    index,         \* the local `index` of compressFile
    buffer,        \* the local `buffer` of compressFile after resize
    workQueue,     \* the global queue of Chunk
    doneReading,   \* the global flag
    queueMutex,    \* holder of queueMutex, or Unlocked
    outputMutex,   \* holder of outputMutex, or Unlocked
    waiters,       \* workers blocked inside cv.wait
    wpc,           \* position of each compressWorker
    chunk,         \* the local `chunk` of each worker
    compressed,    \* the local `compressed` of each worker
    stream,        \* every byte each worker has written to its `out`
    flushed,       \* how many of them its filebuf has passed on to the file
    \* ---- a decompression run: decompressFile(file, ...)
    dpc,           \* position of decompressFile
    dpos,          \* read position of `in`
    dfail,         \* whether `in` has failbit or eofbit set
    dhdr,          \* header bytes the current iteration obtained
    dindex,        \* the local `index`
    dsize,         \* the local `size`
    dcompressed,   \* the local `compressed`
    dgot,          \* in.gcount() after the payload read
    dout,          \* the bytes of the decompressor's output file
    \* ---- the codec alone
    cpc,           \* position of the codec run
    cinput,        \* the argument of RLECompress
    cencoded,      \* its result
    cdecoded       \* RLEDecompress of that result

cvars == <<inputFile, existing, threadCount, file, rpc, spawned, joined, inPos,
           inEof, index, buffer, workQueue, doneReading, queueMutex,
           outputMutex, waiters, wpc, chunk, compressed, stream, flushed>>
dvars == <<dpc, dpos, dfail, dhdr, dindex, dsize, dcompressed, dgot, dout>>
kvars == <<cpc, cinput, cencoded, cdecoded>>
vars == <<cvars, dvars, kvars>>

Workers == 1..MaxWorkers

\* the input files of a compression run: the first n bytes of "AABBABAB",
\* for every n up to MaxLen
InputFiles ==
    {SubSeq(<<65, 65, 66, 66, 65, 66, 65, 66>>, 1, Min(n, 8)) : n \in 0..MaxLen}

RECURSIVE SeqsUpTo(_, _)
\* all sequences over S of length at most n
SeqsUpTo(S, n) ==
    IF n = 0 THEN {<<>>}
    ELSE LET shorter == SeqsUpTo(S, n - 1)
         IN  shorter \cup {Append(s, x) : s \in shorter, x \in S}

\* what an earlier run left at the output path: the record of the file "AB"
PriorContent == Frame(0, RLECompress(<<65, 66>>))

\* a default-constructed Chunk
NoChunk == [index |-> 0, data |-> <<>>]

----------------------------------------------------------------------------
(* The two streams' file operations *)

\* std::ofstream(outputFile, binary | trunc): what opening without app does
OpenTrunc(f) == <<>>

\* std::ofstream out(outputFile, std::ios::binary | std::ios::app):
\* the content of the file is kept
OpenApp(f) == f

\* a filebuf opened with app passes bytes on at the end of the file
AppendToFile(f, bytes) == f \o bytes

\* the bytes of worker w still in the put area of its filebuf
Unflushed(w) == SubSeq(stream[w], flushed[w] + 1, Len(stream[w]))

\* out.write(data, n) by worker w; the filebuf may pass its put area on to
\* the file once the bytes are in it (fl), or keep them
Put(w, data, fl) ==
    /\ stream' = [stream EXCEPT ![w] = @ \o data]
    /\ IF fl
       THEN /\ file' = AppendToFile(file, Unflushed(w) \o data)
            /\ flushed' = [flushed EXCEPT ![w] = Len(stream[w]) + Len(data)]
       ELSE UNCHANGED <<file, flushed>>

----------------------------------------------------------------------------
(* The work queue *)

\* taking the newest chunk instead of the oldest
QBack(q) == q[Len(q)]

\* workQueue.front()
QFront(q) == Head(q)

\* a pop that leaves the chunk in the queue
QKeep(q) == q

\* workQueue.pop()
QPop(q) == Tail(q)

\* workQueue.push(c)
QPush(q, c) == Append(q, c)

\* a wait that lets the worker through whatever the queue and the flag are
WaitPredNone == TRUE

\* the predicate of cv.wait
WaitPred == workQueue # <<>> \/ doneReading

----------------------------------------------------------------------------
(* compressFile: the main thread *)

\* for (int i = 0; i < threadCount; ++i) threads.emplace_back(compressWorker, outputFile)
Spawn ==
    /\ rpc = "spawn"
    /\ IF spawned < threadCount
       THEN /\ spawned' = spawned + 1
            /\ wpc' = [wpc EXCEPT ![spawned + 1] = "open"]
            /\ rpc' = rpc
       ELSE /\ rpc' = "read"
            /\ UNCHANGED <<spawned, wpc>>
    /\ UNCHANGED <<inputFile, existing, threadCount, file, joined, inPos, inEof,
                   index, buffer, workQueue, doneReading, queueMutex,
                   outputMutex, waiters, chunk, compressed, stream, flushed>>
    /\ UNCHANGED <<dvars, kvars>>

\* the read loop without the test for a read of zero bytes
ReadChunkNoBreak ==
    /\ rpc = "read"
    /\ IF inEof
       THEN /\ rpc' = "close_lock"
            /\ UNCHANGED <<inPos, inEof, buffer>>
       ELSE LET bytesRead == Min(CHUNK_SIZE, Len(inputFile) - inPos)
            IN  /\ inPos' = inPos + bytesRead
                /\ inEof' = (bytesRead < CHUNK_SIZE)
                /\ rpc' = "push_lock"
                /\ buffer' = SubSeq(inputFile, inPos + 1, inPos + bytesRead)
    /\ UNCHANGED <<inputFile, existing, threadCount, file, spawned, joined,
                   index, workQueue, doneReading, queueMutex, outputMutex,
                   waiters, wpc, chunk, compressed, stream, flushed>>
    /\ UNCHANGED <<dvars, kvars>>

\* while (!in.eof()) { read; bytesRead = in.gcount(); if (bytesRead == 0) break;
\*                     buffer.resize(bytesRead);
ReadChunk ==
    /\ rpc = "read"
    /\ IF inEof
       THEN /\ rpc' = "close_lock"
            /\ UNCHANGED <<inPos, inEof, buffer>>
       ELSE LET bytesRead == Min(CHUNK_SIZE, Len(inputFile) - inPos)
            IN  /\ inPos' = inPos + bytesRead
                /\ inEof' = (bytesRead < CHUNK_SIZE)
                /\ IF bytesRead = 0
                   THEN /\ rpc' = "close_lock"
                        /\ UNCHANGED buffer
                   ELSE /\ rpc' = "push_lock"
                        /\ buffer' = SubSeq(inputFile, inPos + 1, inPos + bytesRead)
    /\ UNCHANGED <<inputFile, existing, threadCount, file, spawned, joined,
                   index, workQueue, doneReading, queueMutex, outputMutex,
                   waiters, wpc, chunk, compressed, stream, flushed>>
    /\ UNCHANGED <<dvars, kvars>>

\* std::lock_guard<std::mutex> lock(queueMutex), line 88
PushLock ==
    /\ rpc = "push_lock"
    /\ queueMutex = Unlocked
    /\ queueMutex' = MainThread
    /\ rpc' = "push"
    /\ UNCHANGED <<inputFile, existing, threadCount, file, spawned, joined,
                   inPos, inEof, index, buffer, workQueue, doneReading,
                   outputMutex, waiters, wpc, chunk, compressed, stream, flushed>>
    /\ UNCHANGED <<dvars, kvars>>

\* the push with the flag set in the loop body
PushAndClose ==
    /\ rpc = "push"
    /\ workQueue' = QPush(workQueue, [index |-> index, data |-> buffer])
    /\ index' = index + 1
    /\ doneReading' = TRUE
    /\ queueMutex' = Unlocked
    /\ rpc' = "notify"
    /\ UNCHANGED <<inputFile, existing, threadCount, file, spawned, joined,
                   inPos, inEof, buffer, outputMutex, waiters,
                   wpc, chunk, compressed, stream, flushed>>
    /\ UNCHANGED <<dvars, kvars>>

\* workQueue.push({index++, buffer}); and the end of the guard's scope
Push ==
    /\ rpc = "push"
    /\ workQueue' = QPush(workQueue, [index |-> index, data |-> buffer])
    /\ index' = index + 1
    /\ queueMutex' = Unlocked
    /\ rpc' = "notify"
    /\ UNCHANGED <<inputFile, existing, threadCount, file, spawned, joined,
                   inPos, inEof, buffer, doneReading, outputMutex, waiters,
                   wpc, chunk, compressed, stream, flushed>>
    /\ UNCHANGED <<dvars, kvars>>

\* cv.notify_one(): one of the workers blocked in cv.wait, if any, is woken
\* and goes on to take queueMutex again
NotifyOne ==
    /\ rpc = "notify"
    /\ rpc' = "read"
    /\ IF waiters = {}
       THEN UNCHANGED <<waiters, wpc>>
       ELSE \E w \in waiters :
                /\ waiters' = waiters \ {w}
                /\ wpc' = [wpc EXCEPT ![w] = "lock"]
    /\ UNCHANGED <<inputFile, existing, threadCount, file, spawned, joined,
                   inPos, inEof, index, buffer, workQueue, doneReading,
                   queueMutex, outputMutex, chunk, compressed, stream, flushed>>
    /\ UNCHANGED <<dvars, kvars>>

\* in.close(); std::lock_guard<std::mutex> lock(queueMutex), line 97
CloseLock ==
    /\ rpc = "close_lock"
    /\ queueMutex = Unlocked
    /\ queueMutex' = MainThread
    /\ rpc' = "close"
    /\ UNCHANGED <<inputFile, existing, threadCount, file, spawned, joined,
                   inPos, inEof, index, buffer, workQueue, doneReading,
                   outputMutex, waiters, wpc, chunk, compressed, stream, flushed>>
    /\ UNCHANGED <<dvars, kvars>>

\* doneReading = true; and the end of the guard's scope
Close ==
    /\ rpc = "close"
    /\ doneReading' = TRUE
    /\ queueMutex' = Unlocked
    /\ rpc' = "notify_all"
    /\ UNCHANGED <<inputFile, existing, threadCount, file, spawned, joined,
                   inPos, inEof, index, buffer, workQueue, outputMutex,
                   waiters, wpc, chunk, compressed, stream, flushed>>
    /\ UNCHANGED <<dvars, kvars>>

\* a close that forgets the broadcast
WokenByNone(ws) == {}

\* the workers cv.notify_all() wakes: all that are blocked in cv.wait
WokenByNotifyAll(ws) == ws

\* cv.notify_all()
NotifyAll ==
    /\ rpc = "notify_all"
    /\ rpc' = "join"
    /\ LET woken == WokenByNotifyAll(waiters)
       IN  /\ waiters' = waiters \ woken
           /\ wpc' = [w \in Workers |-> IF w \in woken THEN "lock" ELSE wpc[w]]
    /\ UNCHANGED <<inputFile, existing, threadCount, file, spawned, joined,
                   inPos, inEof, index, buffer, workQueue, doneReading,
                   queueMutex, outputMutex, chunk, compressed, stream, flushed>>
    /\ UNCHANGED <<dvars, kvars>>

\* a return that does not wait for the workers
JoinSkip ==
    /\ rpc = "join"
    /\ rpc' = "returned"
    /\ joined' = joined
    /\ UNCHANGED <<inputFile, existing, threadCount, file, spawned, inPos,
                   inEof, index, buffer, workQueue, doneReading, queueMutex,
                   outputMutex, waiters, wpc, chunk, compressed, stream, flushed>>
    /\ UNCHANGED <<dvars, kvars>>

\* for (auto& t : threads) t.join(); and the return
Join ==
    /\ rpc = "join"
    /\ IF joined < spawned
       THEN /\ wpc[joined + 1] = "done"
            /\ joined' = joined + 1
            /\ rpc' = rpc
       ELSE /\ rpc' = "returned"
            /\ joined' = joined
    /\ UNCHANGED <<inputFile, existing, threadCount, file, spawned, inPos,
                   inEof, index, buffer, workQueue, doneReading, queueMutex,
                   outputMutex, waiters, wpc, chunk, compressed, stream, flushed>>
    /\ UNCHANGED <<dvars, kvars>>

----------------------------------------------------------------------------
(* compressWorker: worker w *)

\* std::ofstream out(outputFile, std::ios::binary | std::ios::app)
WOpen(w) ==
    /\ wpc[w] = "open"
    /\ file' = OpenApp(file)
    /\ wpc' = [wpc EXCEPT ![w] = "lock"]
    /\ UNCHANGED <<inputFile, existing, threadCount, rpc, spawned, joined,
                   inPos, inEof, index, buffer, workQueue, doneReading,
                   queueMutex, outputMutex, waiters, chunk, compressed,
                   stream, flushed>>
    /\ UNCHANGED <<dvars, kvars>>

\* std::unique_lock<std::mutex> lock(queueMutex), and taking the mutex again
\* when cv.wait wakes up
WLock(w) ==
    /\ wpc[w] = "lock"
    /\ queueMutex = Unlocked
    /\ queueMutex' = w
    /\ wpc' = [wpc EXCEPT ![w] = "locked"]
    /\ UNCHANGED <<inputFile, existing, threadCount, file, rpc, spawned, joined,
                   inPos, inEof, index, buffer, workQueue, doneReading,
                   outputMutex, waiters, chunk, compressed, stream, flushed>>
    /\ UNCHANGED <<dvars, kvars>>

\* cv.wait(lock, pred) with the predicate false: the mutex is released and
\* the worker blocks, in one step
WWait(w) ==
    /\ wpc[w] = "locked"
    /\ ~WaitPred
    /\ queueMutex' = Unlocked
    /\ waiters' = waiters \cup {w}
    /\ wpc' = [wpc EXCEPT ![w] = "wait"]
    /\ UNCHANGED <<inputFile, existing, threadCount, file, rpc, spawned, joined,
                   inPos, inEof, index, buffer, workQueue, doneReading,
                   outputMutex, chunk, compressed, stream, flushed>>
    /\ UNCHANGED <<dvars, kvars>>

\* a condition variable may wake a waiter nobody notified
SpuriousWakeup(w) ==
    /\ wpc[w] = "wait"
    /\ w \in waiters
    /\ waiters' = waiters \ {w}
    /\ wpc' = [wpc EXCEPT ![w] = "lock"]
    /\ UNCHANGED <<inputFile, existing, threadCount, file, rpc, spawned, joined,
                   inPos, inEof, index, buffer, workQueue, doneReading,
                   queueMutex, outputMutex, chunk, compressed, stream, flushed>>
    /\ UNCHANGED <<dvars, kvars>>

\* the predicate holds and the queue is empty: break, leaving the scope of
\* the lock
WBreak(w) ==
    /\ wpc[w] = "locked"
    /\ WaitPred
    /\ workQueue = <<>>
    /\ queueMutex' = Unlocked
    /\ wpc' = [wpc EXCEPT ![w] = "close"]
    /\ UNCHANGED <<inputFile, existing, threadCount, file, rpc, spawned, joined,
                   inPos, inEof, index, buffer, workQueue, doneReading,
                   outputMutex, waiters, chunk, compressed, stream, flushed>>
    /\ UNCHANGED <<dvars, kvars>>

\* a dequeue whose lock stays held for the rest of the iteration
WPopHolding(w) ==
    /\ wpc[w] = "locked"
    /\ WaitPred
    /\ workQueue # <<>>
    /\ chunk' = [chunk EXCEPT ![w] = QFront(workQueue)]
    /\ workQueue' = QPop(workQueue)
    /\ wpc' = [wpc EXCEPT ![w] = "encode"]
    /\ UNCHANGED <<inputFile, existing, threadCount, file, rpc, spawned, joined,
                   inPos, inEof, index, buffer, doneReading, queueMutex,
                   outputMutex, waiters, compressed, stream, flushed>>
    /\ UNCHANGED <<dvars, kvars>>

\* chunk = workQueue.front(); workQueue.pop(); and the end of the scope
WPop(w) ==
    /\ wpc[w] = "locked"
    /\ WaitPred
    /\ workQueue # <<>>
    /\ chunk' = [chunk EXCEPT ![w] = QFront(workQueue)]
    /\ workQueue' = QPop(workQueue)
    /\ queueMutex' = Unlocked
    /\ wpc' = [wpc EXCEPT ![w] = "encode"]
    /\ UNCHANGED <<inputFile, existing, threadCount, file, rpc, spawned, joined,
                   inPos, inEof, index, buffer, doneReading, outputMutex,
                   waiters, compressed, stream, flushed>>
    /\ UNCHANGED <<dvars, kvars>>

\* std::vector<char> compressed = RLECompress(chunk.data);
\* std::lock_guard<std::mutex> lock(outputMutex)
WLockOut(w) ==
    /\ wpc[w] = "encode"
    /\ outputMutex = Unlocked
    /\ compressed' = [compressed EXCEPT ![w] = RLECompress(chunk[w].data)]
    /\ outputMutex' = w
    /\ wpc' = [wpc EXCEPT ![w] = "write_index"]
    /\ UNCHANGED <<inputFile, existing, threadCount, file, rpc, spawned, joined,
                   inPos, inEof, index, buffer, workQueue, doneReading,
                   queueMutex, waiters, chunk, stream, flushed>>
    /\ UNCHANGED <<dvars, kvars>>

\* out.write(reinterpret_cast<char*>(&chunk.index), sizeof(size_t))
WWriteIndex(w) ==
    /\ wpc[w] = "write_index"
    /\ \E fl \in BOOLEAN : Put(w, SizeToChars(chunk[w].index), fl)
    /\ wpc' = [wpc EXCEPT ![w] = "write_size"]
    /\ UNCHANGED <<inputFile, existing, threadCount, rpc, spawned, joined,
                   inPos, inEof, index, buffer, workQueue, doneReading,
                   queueMutex, outputMutex, waiters, chunk, compressed>>
    /\ UNCHANGED <<dvars, kvars>>

\* the size field taken from the chunk instead of the encoded payload
WWriteSizeOfChunk(w) ==
    /\ wpc[w] = "write_size"
    /\ \E fl \in BOOLEAN : Put(w, SizeToChars(Len(chunk[w].data)), fl)
    /\ wpc' = [wpc EXCEPT ![w] = "write_data"]
    /\ UNCHANGED <<inputFile, existing, threadCount, rpc, spawned, joined,
                   inPos, inEof, index, buffer, workQueue, doneReading,
                   queueMutex, outputMutex, waiters, chunk, compressed>>
    /\ UNCHANGED <<dvars, kvars>>

\* size_t size = compressed.size(); out.write(reinterpret_cast<char*>(&size), sizeof(size_t))
WWriteSize(w) ==
    /\ wpc[w] = "write_size"
    /\ \E fl \in BOOLEAN : Put(w, SizeToChars(Len(compressed[w])), fl)
    /\ wpc' = [wpc EXCEPT ![w] = "write_data"]
    /\ UNCHANGED <<inputFile, existing, threadCount, rpc, spawned, joined,
                   inPos, inEof, index, buffer, workQueue, doneReading,
                   queueMutex, outputMutex, waiters, chunk, compressed>>
    /\ UNCHANGED <<dvars, kvars>>

\* out.write(compressed.data(), size); and the end of the guard's scope
WWriteData(w) ==
    /\ wpc[w] = "write_data"
    /\ \E fl \in BOOLEAN : Put(w, compressed[w], fl)
    /\ outputMutex' = Unlocked
    /\ wpc' = [wpc EXCEPT ![w] = "lock"]
    /\ UNCHANGED <<inputFile, existing, threadCount, rpc, spawned, joined,
                   inPos, inEof, index, buffer, workQueue, doneReading,
                   queueMutex, waiters, chunk, compressed>>
    /\ UNCHANGED <<dvars, kvars>>

\* out.close(): what is left in the put area goes to the file
WClose(w) ==
    /\ wpc[w] = "close"
    /\ Put(w, <<>>, TRUE)
    /\ wpc' = [wpc EXCEPT ![w] = "done"]
    /\ UNCHANGED <<inputFile, existing, threadCount, rpc, spawned, joined,
                   inPos, inEof, index, buffer, workQueue, doneReading,
                   queueMutex, outputMutex, waiters, chunk, compressed>>
    /\ UNCHANGED <<dvars, kvars>>

MainStep ==
    \/ Spawn \/ ReadChunk \/ PushLock \/ Push \/ NotifyOne
    \/ CloseLock \/ Close \/ NotifyAll \/ Join

WorkerStep(w) ==
    \/ WOpen(w) \/ WLock(w) \/ WWait(w) \/ WBreak(w) \/ WPop(w)
    \/ WLockOut(w) \/ WWriteIndex(w) \/ WWriteSize(w) \/ WWriteData(w)
    \/ WClose(w)

----------------------------------------------------------------------------
(* decompressFile *)

\* what in.read(p, n) obtains from position pos of f
StreamRead(f, pos, fail, n) ==
    IF fail THEN <<>> ELSE SubSeq(f, pos + 1, Min(pos + n, Len(f)))

\* std::ifstream in(inputFile, binary); std::ofstream out(outputFile, binary)
DOpen ==
    /\ dpc = "idle"
    /\ rpc = "returned"
    /\ dpc' = "peek"
    /\ dout' = <<>>
    /\ UNCHANGED <<dpos, dfail, dhdr, dindex, dsize, dcompressed, dgot>>
    /\ UNCHANGED <<cvars, kvars>>

\* a loop test that compares the peeked byte with 0 instead of EOF
DPeekZero ==
    /\ dpc = "peek"
    /\ IF ~dfail /\ dpos < Len(file) /\ file[dpos + 1] = 0
       THEN /\ dpc' = "done"
            /\ dfail' = dfail
       ELSE /\ dpc' = "header"
            /\ dfail' = (dfail \/ dpos >= Len(file))
    /\ UNCHANGED <<dpos, dhdr, dindex, dsize, dcompressed, dgot, dout>>
    /\ UNCHANGED <<cvars, kvars>>

\* while (in.peek() != EOF)
DPeek ==
    /\ dpc = "peek"
    /\ IF dfail \/ dpos >= Len(file)
       THEN /\ dpc' = "done"
            /\ dfail' = TRUE
       ELSE /\ dpc' = "header"
            /\ dfail' = dfail
    /\ UNCHANGED <<dpos, dhdr, dindex, dsize, dcompressed, dgot, dout>>
    /\ UNCHANGED <<cvars, kvars>>

\* size_t index = 0, size = 0; in.read(&index, 8); in.read(&size, 8)
DReadHeader ==
    /\ dpc = "header"
    /\ LET b1 == StreamRead(file, dpos, dfail, SIZE_T)
           f1 == dfail \/ Len(b1) < SIZE_T
           b2 == StreamRead(file, dpos + Len(b1), f1, SIZE_T)
           f2 == f1 \/ Len(b2) < SIZE_T
       IN  /\ dindex' = CharsToSize(b1)
           /\ dsize' = CharsToSize(b2)
           /\ dhdr' = Len(b1) + Len(b2)
           /\ dpos' = dpos + Len(b1) + Len(b2)
           /\ dfail' = f2
    /\ dcompressed' = <<>>
    /\ dgot' = 0
    /\ dpc' = "payload"
    /\ UNCHANGED dout
    /\ UNCHANGED <<cvars, kvars>>

\* writing the decoded bytes in front of the output instead of after it
WritePrepend(out, bytes) == bytes \o out

\* a decompressor that honours the index field: the record with index 0 goes
\* to the front of the output
WriteByIndex(out, bytes) == IF dindex = 0 THEN bytes \o out ELSE out \o bytes

\* out.write(decompressed.data(), decompressed.size())
WriteOut(out, bytes) == out \o bytes

\* std::vector<char> compressed(size); in.read(compressed.data(), size);
\* decompressed = RLEDecompress(compressed); out.write(...)
DPayload ==
    /\ dpc = "payload"
    /\ IF dsize > MaxAlloc
       THEN /\ dpc' = "aborted"
            /\ UNCHANGED <<dpos, dfail, dcompressed, dgot, dout>>
       ELSE LET b == StreamRead(file, dpos, dfail, dsize)
                c == b \o Repeat(0, dsize - Len(b))
            IN  /\ dcompressed' = c
                /\ dgot' = Len(b)
                /\ dpos' = dpos + Len(b)
                /\ dfail' = (dfail \/ Len(b) < dsize)
                /\ dout' = WriteOut(dout, RLEDecompress(c))
                /\ dpc' = "peek"
    /\ UNCHANGED <<dhdr, dindex, dsize>>
    /\ UNCHANGED <<cvars, kvars>>

DecompressStep == DOpen \/ DPeek \/ DReadHeader \/ DPayload

----------------------------------------------------------------------------
(* the codec alone *)

\* RLECompress(cinput)
KEncode ==
    /\ cpc = "input"
    /\ cencoded' = RLECompress(cinput)
    /\ cpc' = "encoded"
    /\ UNCHANGED <<cinput, cdecoded>>
    /\ UNCHANGED <<cvars, dvars>>

\* RLEDecompress of the result
KDecode ==
    /\ cpc = "encoded"
    /\ cdecoded' = RLEDecompress(cencoded)
    /\ cpc' = "decoded"
    /\ UNCHANGED <<cinput, cencoded>>
    /\ UNCHANGED <<cvars, dvars>>

\* RLEDecompress(cinput), cinput being bytes that no encoder produced
KDecodeRaw ==
    /\ cpc = "raw"
    /\ cdecoded' = RLEDecompress(cinput)
    /\ cpc' = "rawdecoded"
    /\ UNCHANGED <<cinput, cencoded>>
    /\ UNCHANGED <<cvars, dvars>>

----------------------------------------------------------------------------
(* Specifications *)

\* no compression run is in progress or has been made
CompressorAtRest(f) ==
    /\ inputFile = <<>>
    /\ existing = f
    /\ threadCount = 0
    /\ file = f
    /\ rpc = "returned"
    /\ spawned = 0
    /\ joined = 0
    /\ inPos = 0
    /\ inEof = FALSE
    /\ index = 0
    /\ buffer = <<>>
    /\ workQueue = <<>>
    /\ doneReading = FALSE
    /\ queueMutex = Unlocked
    /\ outputMutex = Unlocked
    /\ waiters = {}
    /\ wpc = [w \in Workers |-> "idle"]
    /\ chunk = [w \in Workers |-> NoChunk]
    /\ compressed = [w \in Workers |-> <<>>]
    /\ stream = [w \in Workers |-> <<>>]
    /\ flushed = [w \in Workers |-> 0]

DecompressorAtRest ==
    /\ dpc = "idle"
    /\ dpos = 0
    /\ dfail = FALSE
    /\ dhdr = 0
    /\ dindex = 0
    /\ dsize = 0
    /\ dcompressed = <<>>
    /\ dgot = 0
    /\ dout = <<>>

CodecAtRest ==
    /\ cpc = "off"
    /\ cinput = <<>>
    /\ cencoded = <<>>
    /\ cdecoded = <<>>

\* main() calls compressFile on an input file, an output path that is empty
\* or holds the records of an earlier run, and a thread count; the output
\* is then given to decompressFile
Init ==
    /\ inputFile \in InputFiles
    /\ existing \in {<<>>, PriorContent}
    /\ threadCount \in (-1)..MaxWorkers
    /\ file = existing
    /\ rpc = "spawn"
    /\ spawned = 0
    /\ joined = 0
    /\ inPos = 0
    /\ inEof = FALSE
    /\ index = 0
    /\ buffer = <<>>
    /\ workQueue = <<>>
    /\ doneReading = FALSE
    /\ queueMutex = Unlocked
    /\ outputMutex = Unlocked
    /\ waiters = {}
    /\ wpc = [w \in Workers |-> "idle"]
    /\ chunk = [w \in Workers |-> NoChunk]
    /\ compressed = [w \in Workers |-> <<>>]
    /\ stream = [w \in Workers |-> <<>>]
    /\ flushed = [w \in Workers |-> 0]
    /\ DecompressorAtRest
    /\ CodecAtRest

Next ==
    \/ MainStep
    \/ \E w \in Workers : WorkerStep(w)
    \/ \E w \in Workers : SpuriousWakeup(w)
    \/ DecompressStep

Spec == Init /\ [][Next]_vars

\* The runs whose scheduling is examined: the output path is empty (its
\* content influences no guard of the compressor)
InitL ==
    /\ Init
    /\ existing = <<>>

\* The compression run under the scheduler's guarantee that a thread which
\* can run does run.  Only wake-ups the code asks for happen here, so that a
\* blocked worker has nothing but notify_one and notify_all to rely on; a
\* thread waiting for a mutex then finds it free for good after finitely many
\* steps of the others, and weak fairness is all that is needed.
NextL == MainStep \/ \E w \in Workers : WorkerStep(w)

LiveSpec ==
    /\ InitL
    /\ [][NextL]_vars
    /\ WF_vars(MainStep)
    /\ \A w \in Workers : WF_vars(WorkerStep(w))

\* The same with spurious wake-ups, none of which is owed.  A worker may now
\* take and release queueMutex for ever, so a thread waiting for a mutex that
\* keeps becoming free has to be promised that it eventually gets it.
NextLS ==
    \/ MainStep
    \/ \E w \in Workers : WorkerStep(w)
    \/ \E w \in Workers : SpuriousWakeup(w)

LiveSpecSpurious ==
    /\ InitL
    /\ [][NextLS]_vars
    /\ SF_vars(MainStep)
    /\ \A w \in Workers : SF_vars(WorkerStep(w))

\* compressFile alone: the run up to its return, with spurious wake-ups and
\* any content of the output path
SpecC == Init /\ [][NextLS]_vars

----------------------------------------------------------------------------
(* Inputs of the decompressor alone: any bytes.  They are made of records, *)
(* possibly followed by a header that declares more than memory holds, and *)
(* cut off at any position.                                                *)

\* payloads: empty, "AA", an odd-length one, and the ten bytes of "AABCDE"
Payloads ==
    {<<>>, <<65, 2>>, <<66, 3, 65>>, <<65, 2, 66, 1, 67, 1, 68, 1, 69, 1>>}

Records == {Frame(i, p) : i \in {0, 3}, p \in Payloads}

RECURSIVE RecordStreams(_)
\* the concatenations of at most n records
RecordStreams(n) ==
    IF n = 0 THEN {<<>>}
    ELSE LET shorter == RecordStreams(n - 1)
         IN  shorter \cup {s \o r : s \in shorter, r \in Records}

\* a header whose length field asks for more than MaxAlloc bytes
GreedyHeader == SizeToChars(0) \o SizeToChars(MaxAlloc + 1)

InitD ==
    /\ \E s \in RecordStreams(MaxRecs), t \in {<<>>, GreedyHeader} :
           \E k \in 0..Len(s \o t) : CompressorAtRest(SubSeq(s \o t, 1, k))
    /\ DecompressorAtRest
    /\ CodecAtRest

NextD == DecompressStep

SpecD == InitD /\ [][NextD]_vars

\* the inputs of decompressFile with one record less than InitD allows
InitDL ==
    /\ \E s \in RecordStreams(MaxRecs - 1), t \in {<<>>, GreedyHeader} :
           \E k \in 0..Len(s \o t) : CompressorAtRest(SubSeq(s \o t, 1, k))
    /\ DecompressorAtRest
    /\ CodecAtRest

\* decompressFile runs on: when it can take a step it takes one
SpecDLive == InitDL /\ [][NextD]_vars /\ WF_vars(NextD)

----------------------------------------------------------------------------
(* Inputs of the codec alone: every short sequence over a few byte values  *)
(* (0, 'A', and 200 and 255, which are negative as char), and runs around  *)
(* the cap of 255 and twice the cap.                                       *)

MaxCodecLen == 3

CodecBytes == {0, 65, ToChar(200), ToChar(255)}

LongRuns ==
    {Repeat(x, n) \o t : x \in {65, ToChar(200)},
                         n \in {MAX_RUN - 1, MAX_RUN, MAX_RUN + 1, 300,
                                2 * MAX_RUN, 2 * MAX_RUN + 1},
                         t \in {<<>>, <<66>>, <<65>>}}

\* payloads with a pair of count 0 before, between and after other pairs,
\* of even and of odd length
ZeroCounts ==
    {<<65, 0, 66, 2>>, <<65, 2, 66, 0>>, <<65, 2, 66, 0, 65>>,
     <<65, 1, 66, 0, 65, 2>>, <<65, 0, 66, 0, 65>>,
     <<66, ToChar(200), 65, 0, 66, ToChar(255), 65>>}

InitK ==
    /\ \/ /\ cpc = "input"
          /\ cinput \in SeqsUpTo(CodecBytes, MaxCodecLen) \cup LongRuns
       \/ /\ cpc = "raw"
          /\ cinput \in SeqsUpTo(CodecBytes, MaxCodecLen) \cup ZeroCounts
    /\ cencoded = <<>>
    /\ cdecoded = <<>>
    /\ CompressorAtRest(<<>>)
    /\ DecompressorAtRest

NextK == KEncode \/ KDecode \/ KDecodeRaw

SpecK == InitK /\ [][NextK]_vars

----------------------------------------------------------------------------
(* Vocabulary of the properties *)

HEADER == 2 * SIZE_T

\* the length field of the header f starts with
DeclaredLength(f) == CharsToSize(SubSeq(f, SIZE_T + 1, HEADER))

RECURSIVE WellFormed(_)
\* f is made of whole records: a full header, then exactly the declared
\* number of payload bytes
WellFormed(f) ==
    \/ f = <<>>
    \/ /\ Len(f) >= HEADER
       /\ LET n == DeclaredLength(f)
          IN  /\ n <= MaxAlloc
              /\ Len(f) >= HEADER + n
              /\ WellFormed(SubSeq(f, HEADER + n + 1, Len(f)))

RECURSIVE WholeRecords(_)
\* the records that are wholly present in f, in the order they occur
WholeRecords(f) ==
    IF Len(f) < HEADER
    THEN <<>>
    ELSE LET n == DeclaredLength(f)
         IN  IF Len(f) < HEADER + n
             THEN <<>>
             ELSE <<[index   |-> CharsToSize(SubSeq(f, 1, SIZE_T)),
                     payload |-> SubSeq(f, HEADER + 1, HEADER + n)]>>
                  \o WholeRecords(SubSeq(f, HEADER + n + 1, Len(f)))

RecordIndices(f) ==
    LET recs == WholeRecords(f) IN [i \in DOMAIN recs |-> recs[i].index]

RECURSIVE DecodedInOrder(_)
\* RLEDecompress(payload(r1)) ++ ... ++ RLEDecompress(payload(rk))
DecodedInOrder(recs) ==
    IF recs = <<>> THEN <<>>
    ELSE RLEDecompress(Head(recs).payload) \o DecodedInOrder(Tail(recs))

\* the chunks of the input file
NumChunks == (Len(inputFile) + CHUNK_SIZE - 1) \div CHUNK_SIZE
ChunkData(k) ==
    SubSeq(inputFile, k * CHUNK_SIZE + 1, Min((k + 1) * CHUNK_SIZE, Len(inputFile)))
ChunkFrame(k) == Frame(k, RLECompress(ChunkData(k)))

RECURSIVE ChunksInOrder(_)
\* the data of the chunks with the indices idx, one after the other
ChunksInOrder(idx) ==
    IF idx = <<>> THEN <<>> ELSE ChunkData(Head(idx)) \o ChunksInOrder(Tail(idx))

IsPrefix(p, f) == Len(p) <= Len(f) /\ SubSeq(f, 1, Len(p)) = p

RECURSIVE IsRecordConcat(_, _)
\* f is the records of the chunks S, each whole and once, in some order
IsRecordConcat(f, S) ==
    IF S = {} THEN f = <<>>
    ELSE \E k \in S :
            /\ IsPrefix(ChunkFrame(k), f)
            /\ IsRecordConcat(SubSeq(f, Len(ChunkFrame(k)) + 1, Len(f)), S \ {k})

\* what the run has added to the output file
FileAfterExisting == SubSeq(file, Len(existing) + 1, Len(file))

\* the workers of the run
Pool == 1..threadCount

\* worker w has dequeued a chunk whose record it has not finished writing
Holding(w) == wpc[w] \in {"encode", "write_index", "write_size", "write_data"}

\* how often x occurs in the sequence s
Count(s, x) == Cardinality({i \in DOMAIN s : s[i] = x})

\* for every worker, the index fields of the whole records it has written
WrittenIndices == [w \in Workers |-> RecordIndices(stream[w])]

RECURSIVE WrittenUpTo(_, _, _)
\* how often k occurs in idx[1], ..., idx[n]
WrittenUpTo(idx, n, k) ==
    IF n = 0 THEN 0 ELSE Count(idx[n], k) + WrittenUpTo(idx, n - 1, k)

\* how many whole records with index k the workers have written, idx being
\* WrittenIndices
WrittenIn(idx, k) == WrittenUpTo(idx, MaxWorkers, k)

\* how many whole records with index k the workers have written
Written(k) == WrittenIn(WrittenIndices, k)

\* where the chunk with index k is: in the queue, with a worker, or in a
\* whole record some worker has written; idx is WrittenIndices
OccurrencesIn(idx, k) ==
      Cardinality({i \in DOMAIN workQueue : workQueue[i].index = k})
    + Cardinality({w \in Workers : Holding(w) /\ chunk[w].index = k})
    + WrittenIn(idx, k)

----------------------------------------------------------------------------
(* Properties *)

\* C1: with one worker and an output path that was empty, decompressing the
\* output of the compressor gives the input back, and the records are in
\* the file in increasing chunk index order 0, 1, 2, ...
C1_SingleWorkerRoundTrip ==
    (threadCount = 1 /\ existing = <<>> /\ dpc = "done") =>
        /\ dout = inputFile
        /\ RecordIndices(file) = [i \in 1..NumChunks |-> i - 1]

\* a single-worker run on a file of more than one chunk has been
\* decompressed
C1_Witness ==
    /\ threadCount = 1 /\ existing = <<>> /\ dpc = "done"
    /\ Len(inputFile) > CHUNK_SIZE
    /\ dout = inputFile

\* C2: RLEDecompress(RLECompress(S)) = S for every byte sequence S
C2_CodecInverse == cpc = "decoded" => cdecoded = cinput

\* a sequence with a run longer than the cap, of a byte that is negative
\* as char, followed by another byte, has gone through both functions
C2_Witness ==
    /\ cpc = "decoded"
    /\ Len(cinput) > 2 * MAX_RUN + 1
    /\ cinput[1] < 0
    /\ cinput[Len(cinput)] # cinput[1]
    /\ cdecoded = cinput

\* C3: when compressFile returns, the file holds the records of the chunks,
\* each whole and uninterrupted by bytes of another record
C3_AtomicAppend ==
    (threadCount >= 1 /\ rpc = "returned") =>
        IsRecordConcat(FileAfterExisting, 0..(NumChunks - 1))

\* C4: every chunk the reader has pushed is in exactly one place (the queue,
\* one worker, or one written record), and when compressFile returns every
\* chunk of the input has exactly one written record
C4_ExactlyOnce ==
    threadCount >= 1 =>
        LET idx == WrittenIndices
        IN  /\ \A k \in 0..(index - 1) : OccurrencesIn(idx, k) = 1
            /\ rpc = "returned" =>
                  /\ index = NumChunks
                  /\ \A k \in 0..(NumChunks - 1) : WrittenIn(idx, k) = 1

\* a run with several workers and several chunks has returned
C4_Witness ==
    /\ threadCount >= 2 /\ rpc = "returned" /\ NumChunks >= 2
    /\ \A k \in 0..(NumChunks - 1) : Written(k) = 1
    /\ \E w \in Workers : Len(RecordIndices(stream[w])) = 1

\* C5: once the reader has set doneReading and called notify_all, every
\* worker leaves cv.wait and terminates and compressFile returns
C5_NoWorkerLeftSuspended ==
    (threadCount >= 1 /\ rpc = "join") ~>
        (rpc = "returned" /\ waiters = {} /\ \A w \in Pool : wpc[w] = "done")

\* the reader is about to broadcast while every worker is blocked in cv.wait
C5_Witness ==
    /\ rpc = "notify_all" /\ doneReading
    /\ threadCount = MaxWorkers
    /\ waiters = Pool

\* C6: decompression follows the order of the records in the file, not their
\* indices: when the file holds the whole records of the chunks in some
\* order, the output is the chunks in that order
C6_OutputFollowsRecordOrder ==
    (existing = <<>> /\ dpc = "done" /\ IsRecordConcat(file, 0..(NumChunks - 1))) =>
        dout = ChunksInOrder(RecordIndices(file))

\* two workers have written the whole records of two chunks in the order
\* 1, 0, and the round trip did not give the input back
C6_Witness ==
    /\ threadCount >= 2 /\ existing = <<>> /\ dpc = "done"
    /\ IsRecordConcat(file, 0..(NumChunks - 1))
    /\ RecordIndices(file) = <<1, 0>>
    /\ dout # inputFile

\* the payload read of the current iteration obtained less than the header
\* declared
ShortPayload == dhdr = HEADER /\ dpc # "payload" /\ dgot < dsize

\* C7: a record that declares more payload than the input holds makes
\* decompressFile report a malformed file and halt
C7_MalformedFrameReported == ShortPayload => dpc = "malformed"

\* C8: after a partial header decompressFile stops without allocating or
\* decoding a payload for it
C8_PartialHeaderStops ==
    dhdr < HEADER => (dcompressed = <<>> /\ dpc # "aborted")

RECURSIVE TotalFlushed(_)
\* the number of bytes the filebufs of workers 1..n have passed on
TotalFlushed(n) == IF n = 0 THEN 0 ELSE flushed[n] + TotalFlushed(n - 1)

\* C9: what the output path held before the run stays at the front of the
\* file, and every byte the workers' streams pass on is added after it:
\* nothing is truncated or overwritten
C9_AppendKeepsExisting ==
    /\ IsPrefix(existing, file)
    /\ Len(file) = Len(existing) + TotalFlushed(MaxWorkers)

\* a run with the largest worker count has added its records to a file
\* that held a record before
C9_Witness ==
    /\ existing # <<>> /\ threadCount = MaxWorkers /\ rpc = "returned"
    /\ NumChunks >= 2
    /\ IsPrefix(existing, file) /\ Len(file) > Len(existing)

\* C10: for an input made of whole records the output of decompressFile is
\* the decoded payloads in the order of the records in the file, whatever
\* their index fields
C10_StreamOrder ==
    (dpc = "done" /\ WellFormed(file)) =>
        dout = DecodedInOrder(WholeRecords(file))

\* an input of several whole records with decreasing index fields has been
\* decompressed
C10_Witness ==
    /\ dpc = "done" /\ WellFormed(file)
    /\ Len(WholeRecords(file)) >= 2
    /\ RecordIndices(file)[1] > RecordIndices(file)[2]
    /\ WholeRecords(file)[1].payload # WholeRecords(file)[2].payload
    /\ dout = DecodedInOrder(WholeRecords(file))
    /\ \A i \in 1..2 : RLEDecompress(WholeRecords(file)[i].payload) # <<>>

----------------------------------------------------------------------------
(* Runs of the input, counted without the codec *)

\* the length of the maximal run of equal bytes that starts at 0-based
\* position i of input
MaximalRun(input, i) ==
    Least({c \in 1..(Len(input) - i) :
              i + c = Len(input) \/ input[i + c + 1] # input[i + 1]})

RECURSIVE SplitRun(_, _)
\* a run of n bytes x as pairs: (x,255) while 255 or more remain, then the
\* rest, if any
SplitRun(x, n) ==
    IF n = 0 THEN <<>>
    ELSE IF n >= 255 THEN <<x, ToChar(255)>> \o SplitRun(x, n - 255)
    ELSE <<x, ToChar(n)>>

RECURSIVE RunsEncoding(_, _)
\* the maximal runs of input from position i on, each split
RunsEncoding(input, i) ==
    IF i < Len(input)
    THEN LET n == MaximalRun(input, i)
         IN  SplitRun(input[i + 1], n) \o RunsEncoding(input, i + n)
    ELSE <<>>

\* the value and the count of the j-th pair of e
PairValue(e, j) == e[2 * j - 1]
PairCount(e, j) == ToUChar(e[2 * j])

\* C11: the output of RLECompress has even length, every count is in
\* 1..255, each maximal run of n bytes x of the input is encoded as
\* n \div 255 pairs (x,255) followed by (x, n % 255) when that is not 0, and
\* two adjacent pairs have the same value only if the first has count 255
C11_RunSplitting ==
    cpc \in {"encoded", "decoded"} =>
        /\ Len(cencoded) % 2 = 0
        /\ \A j \in 1..(Len(cencoded) \div 2) :
               PairCount(cencoded, j) \in 1..255
        /\ cencoded = RunsEncoding(cinput, 0)
        /\ \A j \in 1..(Len(cencoded) \div 2 - 1) :
               PairValue(cencoded, j) = PairValue(cencoded, j + 1) =>
                   PairCount(cencoded, j) = 255

\* a run of 300 bytes has been encoded as (X,255),(X,45)
C11_Witness ==
    /\ cpc = "encoded"
    /\ cinput = Repeat(65, 300)
    /\ cencoded = <<65, ToChar(255), 65, 45>>

\* the reader has left its loop
LoopLeft == rpc \in {"close_lock", "close", "notify_all", "join", "returned"}

\* C12: the reader pushes exactly ceil(L/C) chunks, whatever the worker
\* count: every push appends the chunk whose index is the number of chunks
\* pushed before and whose data is the next C bytes of the input, or the
\* rest of it when less is left; no pushed chunk is empty; index counts the
\* pushes; and once the loop is left the chunks pushed, in index order, make
\* up the input
C12_Chunking ==
    /\ [][Len(workQueue') > Len(workQueue) =>
             /\ workQueue' = Append(workQueue, [index |-> index,
                                                data  |-> ChunkData(index)])
             /\ index < NumChunks
             /\ ChunkData(index) # <<>>
             /\ Len(ChunkData(index)) <= CHUNK_SIZE
             /\ (index < NumChunks - 1 => Len(ChunkData(index)) = CHUNK_SIZE)
             /\ index' = index + 1]_vars
    /\ [][index' # index => Len(workQueue') = Len(workQueue) + 1]_vars
    /\ [](rpc = "spawn" => index = 0)
    /\ [](LoopLeft =>
             /\ index = NumChunks
             /\ ChunksInOrder([k \in 1..index |-> k - 1]) = inputFile)

\* an input of one and a half chunk sizes has been read with two workers:
\* two chunks, the second one short
C12_Witness ==
    /\ rpc = "returned" /\ threadCount = 2
    /\ 2 * Len(inputFile) = 3 * CHUNK_SIZE
    /\ index = 2
    /\ 2 * Len(ChunkData(1)) = CHUNK_SIZE

\* C13: doneReading, once true, stays true, and from then on the queue never
\* grows: no chunk is pushed after the close
C13_ClosedIsFinal ==
    /\ [][doneReading => doneReading']_vars
    /\ [][doneReading => Len(workQueue') <= Len(workQueue)]_vars
    /\ [][doneReading => index' = index]_vars

\* the queue is closed and still holds a chunk while a worker works on an
\* earlier one
C13_Witness ==
    /\ doneReading /\ rpc = "join"
    /\ workQueue # <<>>
    /\ \E w \in Pool : Holding(w) /\ chunk[w].index = 0

\* C14: a worker leaves its loop only in a step taken while it holds
\* queueMutex, the queue is empty and doneReading is true; a worker that has
\* left its loop never coexists with a queued chunk or an open queue; and a
\* worker that holds queueMutex with a non-empty queue goes on only by
\* taking the front chunk out of the queue
C14_NoEarlyExit ==
    /\ [][\A w \in Workers :
             (wpc[w] # "close" /\ wpc'[w] = "close") =>
                 /\ wpc[w] = "locked" /\ queueMutex = w
                 /\ workQueue = <<>>
                 /\ doneReading]_vars
    /\ [](\A w \in Workers :
             wpc[w] \in {"close", "done"} => workQueue = <<>> /\ doneReading)
    /\ [][\A w \in Workers :
             (wpc[w] = "locked" /\ workQueue # <<>> /\ wpc'[w] # "locked") =>
                 /\ wpc'[w] = "encode"
                 /\ chunk'[w] = Head(workQueue)
                 /\ workQueue' = Tail(workQueue)]_vars

\* a worker has written a record and then left its loop, the queue empty
\* and closed
C14_Witness ==
    \E w \in Pool :
        /\ wpc[w] = "close"
        /\ WholeRecords(stream[w]) # <<>>
        /\ workQueue = <<>> /\ doneReading

RECURSIVE TotalWritten(_)
\* the bytes workers 1..n have written to their streams, in all
TotalWritten(n) == IF n = 0 THEN 0 ELSE Len(stream[n]) + TotalWritten(n - 1)

\* C15: when compressFile returns from a run with at least one worker, every
\* worker has terminated, the queue is empty, doneReading is true, no mutex
\* is held, nobody waits, and every worker's stream is closed with all the
\* bytes it wrote in the file
C15_Teardown ==
    (threadCount >= 1 /\ rpc = "returned") =>
        /\ \A w \in Pool : wpc[w] = "done" /\ Unflushed(w) = <<>>
        /\ joined = threadCount
        /\ workQueue = <<>>
        /\ doneReading
        /\ waiters = {}
        /\ queueMutex = Unlocked /\ outputMutex = Unlocked
        /\ Len(file) = Len(existing) + TotalWritten(MaxWorkers)

\* a run with two workers that both wrote a record has returned
C15_Witness ==
    /\ threadCount = 2 /\ rpc = "returned"
    /\ \A w \in Pool : wpc[w] = "done" /\ WholeRecords(stream[w]) # <<>>
    /\ workQueue = <<>> /\ doneReading

\* the threads of a compression run
Threads == Workers \cup {MainThread}

\* C16: no thread holds queueMutex and outputMutex at once; a worker has
\* released queueMutex when it encodes, and holds neither mutex then; the
\* reader never holds outputMutex; and while compressFile has not returned
\* some thread can take a step, so the two mutexes never deadlock
C16_IndependentLocks ==
    /\ \A t \in Threads : ~(queueMutex = t /\ outputMutex = t)
    /\ outputMutex # MainThread
    /\ \A w \in Workers :
           /\ Holding(w) => queueMutex # w
           /\ wpc[w] = "encode" => outputMutex # w
           /\ outputMutex = w <=>
                  wpc[w] \in {"write_index", "write_size", "write_data"}
           /\ queueMutex = w <=> wpc[w] = "locked"
    /\ queueMutex = MainThread <=> rpc \in {"push", "close"}
    /\ rpc # "returned" => ENABLED NextL

\* the reader is pushing, under queueMutex, while a worker is writing a
\* record, under outputMutex
C16_Witness ==
    /\ rpc = "push" /\ queueMutex = MainThread
    /\ \E w \in Pool : outputMutex = w /\ wpc[w] = "write_size"

\* worker w is between the first and the last write of a record
MidRecord(w) == wpc[w] \in {"write_size", "write_data"}

RECURSIVE RecordsLength(_)
\* the bytes the records recs take: a header and the payload each
RecordsLength(recs) ==
    IF recs = <<>> THEN 0
    ELSE HEADER + Len(Head(recs).payload) + RecordsLength(Tail(recs))

IsSuffix(s, f) == Len(s) <= Len(f) /\ SubSeq(f, Len(f) - Len(s) + 1, Len(f)) = s

\* C17: what a worker has written is made of records whose index field is
\* the index of a chunk, whose payload is RLECompress of that chunk's data
\* and whose length field is the number of payload bytes that follow; the
\* record written last is the one of the chunk dequeued last
C17_RecordWellFormed ==
    \A w \in Workers :
        LET recs == WholeRecords(stream[w])
        IN  /\ \A i \in DOMAIN recs :
                   /\ recs[i].index < NumChunks
                   /\ recs[i].payload = RLECompress(ChunkData(recs[i].index))
            /\ ~MidRecord(w) => Len(stream[w]) = RecordsLength(recs)
            /\ (~Holding(w) /\ stream[w] # <<>>) =>
                   /\ recs # <<>>
                   /\ recs[Len(recs)].index = chunk[w].index
                   /\ recs[Len(recs)].payload = RLECompress(chunk[w].data)
                   /\ IsSuffix(Frame(chunk[w].index, RLECompress(chunk[w].data)),
                               stream[w])

\* a worker has written the records of two chunks, the second with a
\* payload longer than the chunk
C17_Witness ==
    \E w \in Pool :
        /\ wpc[w] = "lock"
        /\ Len(WholeRecords(stream[w])) = 2
        /\ chunk[w].index = 1
        /\ Len(WholeRecords(stream[w])[2].payload) > Len(chunk[w].data)

RECURSIVE PairsDecoded(_, _)
\* what the first n pairs of b stand for: each value as often as its count,
\* read as a number in 0..255, says
PairsDecoded(b, n) ==
    IF n = 0 THEN <<>>
    ELSE PairsDecoded(b, n - 1) \o [k \in 1..PairCount(b, n) |-> PairValue(b, n)]

\* b without its j-th pair
WithoutPair(b, j) == SubSeq(b, 1, 2 * j - 2) \o SubSeq(b, 2 * j + 1, Len(b))

\* C18: for any bytes B, RLEDecompress reads no position at or beyond |B|;
\* its output is what the whole pairs of B stand for, so a trailing odd byte
\* is dropped (the output is that of B without its last byte), inputs of 0 or
\* 1 bytes give the empty output, and a pair with count 0 adds nothing (the
\* output is that of B without the pair)
C18_MalformedLengths ==
    cpc \in {"raw", "rawdecoded"} =>
        /\ \A r \in DecodeReads(cinput) : r < Len(cinput)
        /\ cpc = "rawdecoded" =>
               /\ cdecoded = PairsDecoded(cinput, Len(cinput) \div 2)
               /\ Len(cinput) % 2 = 1 =>
                      cdecoded = RLEDecompress(SubSeq(cinput, 1, Len(cinput) - 1))
               /\ Len(cinput) <= 1 => cdecoded = <<>>
               /\ \A j \in 1..(Len(cinput) \div 2) :
                      PairCount(cinput, j) = 0 =>
                          cdecoded = RLEDecompress(WithoutPair(cinput, j))

\* bytes of odd length with a pair of count 0 between two pairs that count
\* have been decoded
C18_Witness ==
    /\ cpc = "rawdecoded"
    /\ cinput = <<66, ToChar(200), 65, 0, 66, ToChar(255), 65>>
    /\ Len(cdecoded) = 455
    /\ DecodeReads(cinput) = 0..5

\* C19: when compressFile returns, whatever the worker count, 0 and
\* negative counts included, the queue is empty and every chunk the reader
\* pushed has a record
C19_CompletionImpliesWritten ==
    rpc = "returned" =>
        /\ workQueue = <<>>
        /\ \A k \in 0..(NumChunks - 1) : Written(k) >= 1

\* C20: decompressFile terminates on every input: the loop is entered only
\* with a byte to read, so reading the header moves the position forward,
\* nothing moves it back or beyond the end of the file, and the run ends,
\* by leaving the loop or by the failed allocation of the payload
C20_DecompressTerminates ==
    /\ [][dpc = "header" => dpos' > dpos]_vars
    /\ [][dpos' >= dpos]_vars
    /\ [](dpos <= Len(file))
    /\ [][dfail => dfail']_vars
    /\ <>(dpc \in {"done", "aborted"})

\* the run has ended after a record and a header that stops short
C20_Witness ==
    /\ dpc = "done"
    /\ dhdr \in 1..(HEADER - 1)
    /\ dfail
    /\ dout # <<>>

=============================================================================
